---- MODULE Spec2Model ----
(***************************************************************************)
(* Duck Creek XML file connector (sources/duck_creek/duck_creek.py).       *)
(*                                                                         *)
(* The connector lists the XML files of a directory, keeps those modified  *)
(* after the caller's watermark, flattens each document into the rows of   *)
(* one of 13 tables and hands back the rows with the new watermark.        *)
(*                                                                         *)
(* Python values are tagged records (None, Str, Flt).  Time stamps are     *)
(* sequences of one-character strings, compared as Python compares str;    *)
(* XML elements are records [tag, attrs, text, kids].                      *)
(***************************************************************************)
EXTENDS Integers, Sequences, FiniteSets, TLC

(***************************************************************************)
(* Bounds of the model.                                                    *)
(***************************************************************************)
\* modification times and the clock are ticks 0..MaxTick (half seconds)
MaxTick == 2
\* wrapper elements between the session root and a data element
MaxDepth == 1
\* policy nodes per data element
MaxPolicies == 2
\* line nodes per policy
MaxLines == 2
\* coverage (exposure, limit, ...) nodes per line
MaxCoverages == 2
\* location nodes per account
MaxLocations == 2

Ticks == 0..MaxTick

(***************************************************************************)
(* Python values.                                                          *)
(***************************************************************************)
None == [py |-> "None"]
Str(s) == [py |-> "str", s |-> s]
Flt(m) == [py |-> "float", milli |-> m]

\* bool(v) for None and str values
Truthy(v) == IF v.py = "str" THEN v.s # "" ELSE v.py # "None"

\* a or b
PyOr(a, b) == IF Truthy(a) THEN a ELSE b

\* f"{v}" for None and str values
Format(v) == IF v.py = "str" THEN v.s ELSE "None"

(***************************************************************************)
(* Character strings: the time stamps and the element texts, whose order   *)
(* and content the code inspects.                                          *)
(***************************************************************************)
Digits == <<"0", "1", "2", "3", "4", "5", "6", "7", "8", "9">>

IsDigit(c) == \E i \in 1..10 : Digits[i] = c

DigitValue(c) == (CHOOSE i \in 1..10 : Digits[i] = c) - 1

\* ord(c) for the characters of the model
Ord(c) ==
    CASE c = " " -> 32
      [] c = "+" -> 43
      [] c = "-" -> 45
      [] c = "." -> 46
      [] IsDigit(c) -> 48 + DigitValue(c)
      [] c = ":" -> 58
      [] c = "T" -> 84
      [] OTHER -> 120

RECURSIVE StrLt(_, _)
\* a < b on str: by code point, a proper prefix is smaller
StrLt(a, b) ==
    IF b = <<>> THEN FALSE
    ELSE IF a = <<>> THEN TRUE
    ELSE IF Head(a) # Head(b) THEN Ord(Head(a)) < Ord(Head(b))
    ELSE StrLt(Tail(a), Tail(b))

StrGt(a, b) == StrLt(b, a)

RECURSIVE Join(_)
\* the characters as one string
Join(cs) == IF cs = <<>> THEN "" ELSE Head(cs) \o Join(Tail(cs))

RECURSIVE LStrip(_)
LStrip(cs) ==
    IF cs # <<>> /\ Head(cs) = " " THEN LStrip(Tail(cs)) ELSE cs

RECURSIVE RStrip(_)
RStrip(cs) ==
    IF cs # <<>> /\ cs[Len(cs)] = " " THEN RStrip(SubSeq(cs, 1, Len(cs) - 1)) ELSE cs

\* str.strip()
Strip(cs) == RStrip(LStrip(cs))

RECURSIVE ZeroPad(_, _)
\* n in decimal, zero-padded to w digits
ZeroPad(n, w) ==
    IF w = 0 THEN <<>> ELSE ZeroPad(n \div 10, w - 1) \o <<Digits[(n % 10) + 1]>>

(***************************************************************************)
(* float(text): an optional sign, digits, an optional point and digits.    *)
(* The value is kept in thousandths.                                       *)
(***************************************************************************)
RECURSIVE AllDigits(_)
AllDigits(cs) == cs = <<>> \/ (IsDigit(Head(cs)) /\ AllDigits(Tail(cs)))

RECURSIVE DecimalValue(_, _)
DecimalValue(cs, acc) ==
    IF cs = <<>> THEN acc ELSE DecimalValue(Tail(cs), 10 * acc + DigitValue(Head(cs)))

PointAt(cs) == IF \E i \in 1..Len(cs) : cs[i] = "."
               THEN CHOOSE i \in 1..Len(cs) : cs[i] = "." /\ \A j \in 1..(i - 1) : cs[j] # "."
               ELSE 0

Unsigned(cs) == IF cs # <<>> /\ Head(cs) \in {"+", "-"} THEN Tail(cs) ELSE cs

IntPart(cs) == IF PointAt(cs) = 0 THEN cs ELSE SubSeq(cs, 1, PointAt(cs) - 1)

FracPart(cs) == IF PointAt(cs) = 0 THEN <<>> ELSE SubSeq(cs, PointAt(cs) + 1, Len(cs))

\* whether float(cs) succeeds (no ValueError)
IsFloatLiteral(cs) ==
    LET u == Unsigned(Strip(cs))
    IN  /\ AllDigits(IntPart(u))
        /\ AllDigits(FracPart(u))
        /\ Len(IntPart(u)) + Len(FracPart(u)) > 0

FloatOf(cs) ==
    LET s == Strip(cs)
        u == Unsigned(s)
        f == FracPart(u) \o <<"0", "0", "0">>
        m == 1000 * DecimalValue(IntPart(u), 0) + DecimalValue(SubSeq(f, 1, 3), 0)
    IN  Flt(IF s # <<>> /\ Head(s) = "-" THEN 0 - m ELSE m)

(***************************************************************************)
(* File modification times.  A tick is half a second; tick 0 is second 9,  *)
(* so that the seconds of the model cross a decimal digit.                 *)
(***************************************************************************)
DatePrefix == <<"2", "0", "2", "4", "-", "0", "1", "-", "0", "1", "T",
                "0", "0", ":", "0", "0", ":">>

\* datetime.fromtimestamp(mtime)
fromtimestamp(t) == [second |-> 9 + (t \div 2), microsecond |-> (t % 2) * 500000]

\* datetime.isoformat(): the microseconds are left out when they are zero
isoformat(dt) ==
    DatePrefix \o ZeroPad(dt.second, 2)
        \o (IF dt.microsecond = 0 THEN <<>> ELSE <<".">> \o ZeroPad(dt.microsecond, 6))

(***************************************************************************)
(* XML elements (xml.etree.ElementTree).  An element is                    *)
(* [tag, attrs, text, kids]: attrs maps attribute names to strings, text   *)
(* is the character data before the first child (<<>> when there is       *)
(* none), kids are the child elements in document order.                   *)
(***************************************************************************)
NoAttrs == <<>>

Element(tag, attrs, text, kids) == [tag |-> tag, attrs |-> attrs, text |-> text, kids |-> kids]

\* elem.get(name)
Get(elem, name) == IF name \in DOMAIN elem.attrs THEN Str(elem.attrs[name]) ELSE None

RECURSIVE Map(_, _)
Map(Op(_), s) == IF s = <<>> THEN <<>> ELSE <<Op(Head(s))>> \o Map(Op, Tail(s))

RECURSIVE FlatMap(_, _)
\* the concatenation of Op(s[1]), Op(s[2]), ...: a for loop that extends a list
FlatMap(Op(_), s) == IF s = <<>> THEN <<>> ELSE Op(Head(s)) \o FlatMap(Op, Tail(s))

\* elem.findall("tag"): the direct children with that tag
findall(elem, tag) == SelectSeq(elem.kids, LAMBDA k : k.tag = tag)

\* elem.find("tag"): the first such child, or None
find(elem, tag) == IF findall(elem, tag) = <<>> THEN None ELSE Head(findall(elem, tag))

RECURSIVE findall_deep(_, _)
\* elem.findall(".//tag"): the descendants with that tag, at every depth, in
\* document order (elem itself is not among them)
findall_deep(elem, tag) ==
    FlatMap(LAMBDA k : (IF k.tag = tag THEN <<k>> ELSE <<>>) \o findall_deep(k, tag),
            elem.kids)

_get_text(elem, default) ==
    IF elem # None /\ elem.text # <<>> THEN Str(Join(Strip(elem.text))) ELSE default

\* a coercion that hands back the text it could not convert
_get_float_keepText(elem, default) ==
    LET text == IF elem # None /\ elem.text # <<>> THEN Strip(elem.text) ELSE <<>>
    IN  IF text = <<>> THEN default
        ELSE IF IsFloatLiteral(text) THEN FloatOf(text) ELSE Str(Join(text))

\* float() is applied to the stripped text that _get_text returns
_get_float(elem, default) ==
    LET text == IF elem # None /\ elem.text # <<>> THEN Strip(elem.text) ELSE <<>>
    IN  IF text # <<>> /\ IsFloatLiteral(text) THEN FloatOf(text) ELSE default

(***************************************************************************)
(* The table catalog.                                                      *)
(***************************************************************************)
list_tables ==
    <<"policies", "lines", "coverages", "exposures", "limits", "deductibles",
      "locations", "buildings", "occupancies", "accounts", "addresses",
      "underwriter_referrals", "tax_surcharges">>

StructField(name, type, nullable) == [name |-> name, type |-> type, nullable |-> nullable]

\* the schemas dict of get_table_schema
schemas ==
    [
     policies |->
        <<StructField("policy_id", "string", FALSE),
          StructField("session_id", "string", TRUE),
          StructField("effective_date", "string", TRUE),
          StructField("expiration_date", "string", TRUE),
          StructField("term", "string", TRUE),
          StructField("line_of_business", "string", TRUE),
          StructField("quote_number", "string", TRUE),
          StructField("policy_number", "string", TRUE),
          StructField("status", "string", TRUE),
          StructField("last_transaction_type", "string", TRUE),
          StructField("primary_rating_state", "string", TRUE),
          StructField("segment", "string", TRUE),
          StructField("product", "string", TRUE),
          StructField("writing_company", "string", TRUE),
          StructField("filing_type", "string", TRUE),
          StructField("agency_id", "string", TRUE),
          StructField("producer", "string", TRUE),
          StructField("premium", "double", TRUE),
          StructField("premium_written", "double", TRUE),
          StructField("premium_change", "double", TRUE),
          StructField("transaction_date", "string", TRUE),
          StructField("transaction_sequence_number", "string", TRUE),
          StructField("endorsement_number", "string", TRUE),
          StructField("term_number", "string", TRUE),
          StructField("renewal_type", "string", TRUE),
          StructField("cancellation_date", "string", TRUE),
          StructField("include_terrorism", "string", TRUE),
          StructField("include_gl", "string", TRUE),
          StructField("include_property", "string", TRUE),
          StructField("source_file", "string", TRUE),
          StructField("file_modified_time", "string", TRUE),
          StructField("_extracted_at", "string", FALSE)>>,
     lines |->
        <<StructField("line_id", "string", FALSE),
          StructField("policy_id", "string", FALSE),
          StructField("type", "string", TRUE),
          StructField("written", "double", TRUE),
          StructField("change", "double", TRUE),
          StructField("is_reportable", "string", TRUE),
          StructField("is_final_report", "string", TRUE),
          StructField("has_earthquake_been_selected", "string", TRUE),
          StructField("source_file", "string", TRUE),
          StructField("_extracted_at", "string", FALSE)>>,
     coverages |->
        <<StructField("coverage_id", "string", FALSE),
          StructField("line_id", "string", FALSE),
          StructField("policy_id", "string", FALSE),
          StructField("type", "string", TRUE),
          StructField("premium", "double", TRUE),
          StructField("written", "double", TRUE),
          StructField("change", "double", TRUE),
          StructField("is_cov_endorsement", "string", TRUE),
          StructField("source_file", "string", TRUE),
          StructField("_extracted_at", "string", FALSE)>>,
     exposures |->
        <<StructField("exposure_id", "string", FALSE),
          StructField("line_id", "string", FALSE),
          StructField("policy_id", "string", FALSE),
          StructField("type", "string", TRUE),
          StructField("i_value", "string", TRUE),
          StructField("f_value", "double", TRUE),
          StructField("s_value", "string", TRUE),
          StructField("source_file", "string", TRUE),
          StructField("_extracted_at", "string", FALSE)>>,
     limits |->
        <<StructField("limit_id", "string", FALSE),
          StructField("line_id", "string", FALSE),
          StructField("policy_id", "string", FALSE),
          StructField("type", "string", TRUE),
          StructField("amount", "double", TRUE),
          StructField("i_value", "string", TRUE),
          StructField("f_value", "double", TRUE),
          StructField("scope", "string", TRUE),
          StructField("source_file", "string", TRUE),
          StructField("_extracted_at", "string", FALSE)>>,
     deductibles |->
        <<StructField("deductible_id", "string", FALSE),
          StructField("line_id", "string", FALSE),
          StructField("policy_id", "string", FALSE),
          StructField("type", "string", TRUE),
          StructField("amount", "double", TRUE),
          StructField("i_value", "string", TRUE),
          StructField("f_value", "double", TRUE),
          StructField("scope", "string", TRUE),
          StructField("source_file", "string", TRUE),
          StructField("_extracted_at", "string", FALSE)>>,
     locations |->
        <<StructField("location_id", "string", FALSE),
          StructField("account_id", "string", FALSE),
          StructField("policy_id", "string", FALSE),
          StructField("deleted", "string", TRUE),
          StructField("source_file", "string", TRUE),
          StructField("_extracted_at", "string", FALSE)>>,
     buildings |->
        <<StructField("building_id", "string", FALSE),
          StructField("location_id", "string", FALSE),
          StructField("policy_id", "string", FALSE),
          StructField("source_file", "string", TRUE),
          StructField("_extracted_at", "string", FALSE)>>,
     occupancies |->
        <<StructField("occupancy_id", "string", FALSE),
          StructField("location_id", "string", FALSE),
          StructField("policy_id", "string", FALSE),
          StructField("source_file", "string", TRUE),
          StructField("_extracted_at", "string", FALSE)>>,
     accounts |->
        <<StructField("account_id", "string", FALSE),
          StructField("policy_id", "string", FALSE),
          StructField("name", "string", TRUE),
          StructField("dba", "string", TRUE),
          StructField("entity_type", "string", TRUE),
          StructField("brief_description", "string", TRUE),
          StructField("primary_phone", "string", TRUE),
          StructField("fax", "string", TRUE),
          StructField("email", "string", TRUE),
          StructField("same_as_mailing_address", "string", TRUE),
          StructField("sic_code", "string", TRUE),
          StructField("source_file", "string", TRUE),
          StructField("_extracted_at", "string", FALSE)>>,
     addresses |->
        <<StructField("address_id", "string", FALSE),
          StructField("location_id", "string", TRUE),
          StructField("account_id", "string", TRUE),
          StructField("policy_id", "string", FALSE),
          StructField("latitude", "string", TRUE),
          StructField("longitude", "string", TRUE),
          StructField("last_verified", "string", TRUE),
          StructField("source_file", "string", TRUE),
          StructField("_extracted_at", "string", FALSE)>>,
     underwriter_referrals |->
        <<StructField("referral_id", "string", FALSE),
          StructField("policy_id", "string", FALSE),
          StructField("source_file", "string", TRUE),
          StructField("_extracted_at", "string", FALSE)>>,
     tax_surcharges |->
        <<StructField("tax_surcharge_id", "string", FALSE),
          StructField("policy_id", "string", FALSE),
          StructField("line_id", "string", TRUE),
          StructField("tax_state", "string", TRUE),
          StructField("amount", "double", TRUE),
          StructField("written", "double", TRUE),
          StructField("change", "double", TRUE),
          StructField("type", "string", TRUE),
          StructField("source_file", "string", TRUE),
          StructField("_extracted_at", "string", FALSE)>>]

\* the metadata dict of read_table_metadata
metadata ==
    [
     policies |->
        [primary_keys |-> <<"policy_id">>, cursor_field |-> "file_modified_time", ingestion_type |-> "cdc"],
     lines |->
        [primary_keys |-> <<"line_id", "policy_id">>, cursor_field |-> "_extracted_at", ingestion_type |-> "cdc"],
     coverages |->
        [primary_keys |-> <<"coverage_id", "line_id", "policy_id">>, cursor_field |-> "_extracted_at", ingestion_type |-> "cdc"],
     exposures |->
        [primary_keys |-> <<"exposure_id", "line_id", "policy_id">>, cursor_field |-> "_extracted_at", ingestion_type |-> "cdc"],
     limits |->
        [primary_keys |-> <<"limit_id", "line_id", "policy_id">>, cursor_field |-> "_extracted_at", ingestion_type |-> "cdc"],
     deductibles |->
        [primary_keys |-> <<"deductible_id", "line_id", "policy_id">>, cursor_field |-> "_extracted_at", ingestion_type |-> "cdc"],
     locations |->
        [primary_keys |-> <<"location_id", "policy_id">>, cursor_field |-> "_extracted_at", ingestion_type |-> "cdc"],
     buildings |->
        [primary_keys |-> <<"building_id", "location_id", "policy_id">>, cursor_field |-> "_extracted_at", ingestion_type |-> "cdc"],
     occupancies |->
        [primary_keys |-> <<"occupancy_id", "location_id", "policy_id">>, cursor_field |-> "_extracted_at", ingestion_type |-> "cdc"],
     accounts |->
        [primary_keys |-> <<"account_id", "policy_id">>, cursor_field |-> "_extracted_at", ingestion_type |-> "cdc"],
     addresses |->
        [primary_keys |-> <<"address_id", "policy_id">>, cursor_field |-> "_extracted_at", ingestion_type |-> "cdc"],
     underwriter_referrals |->
        [primary_keys |-> <<"referral_id", "policy_id">>, cursor_field |-> "_extracted_at", ingestion_type |-> "cdc"],
     tax_surcharges |->
        [primary_keys |-> <<"tax_surcharge_id", "policy_id">>, cursor_field |-> "_extracted_at", ingestion_type |-> "cdc"]]

\* what a call hands back: a value, or the exception it raised
Return(value) == [raised |-> "", value |-> value]
Raise(exception) == [raised |-> exception, value |-> None]

\* a lookup that answers an unknown name with an empty schema
get_table_schema_lenient(table_name) ==
    IF table_name \notin DOMAIN schemas THEN Return(<<>>) ELSE Return(schemas[table_name])

get_table_schema(table_name) ==
    IF table_name \notin DOMAIN schemas
    THEN Raise("ValueError: Unknown table")
    ELSE Return(schemas[table_name])

\* metadata whose cursor is the extraction timestamp for every table
read_table_metadata_sameCursor(table_name) ==
    IF table_name \notin DOMAIN metadata
    THEN Raise("ValueError: Unknown table")
    ELSE Return([metadata[table_name] EXCEPT !.cursor_field = "_extracted_at"])

read_table_metadata(table_name) ==
    IF table_name \notin DOMAIN metadata
    THEN Raise("ValueError: Unknown table")
    ELSE Return(metadata[table_name])

(***************************************************************************)
(* The extraction rules, one per table.  A rule's nested for loops become  *)
(* nested FlatMaps in the same order; a counter that the loops increment   *)
(* is the count of the increments up to the node's place in that order.    *)
(***************************************************************************)
\* the first policy of a data element, as the account-side rules take it
FirstPolicyId(data) ==
    IF find(data, "policy") # None THEN Get(find(data, "policy"), "id") ELSE None

\* the (policy_id, line_id, node) of the tag children of every line, in loop order
LineChildren(root, tag) ==
    FlatMap(LAMBDA data :
      FlatMap(LAMBDA policy :
        FlatMap(LAMBDA line :
          Map(LAMBDA node : [policy_id |-> Get(policy, "id"),
                             line_id |-> Get(line, "id"),
                             node |-> node],
              findall(line, tag)),
          findall(policy, "line")),
        findall(data, "policy")),
      findall_deep(root, "data"))

\* a counter that starts again at every line
IdCounter_perLine(items, k) ==
    Cardinality({j \in 1..k : /\ ~Truthy(Get(items[j].node, "id"))
                              /\ items[j].policy_id = items[k].policy_id
                              /\ ("line_id" \in DOMAIN items[k] =>
                                    items[j].line_id = items[k].line_id)})

\* the value of a counter, incremented at each node without an id, at item k
IdCounter(items, k) == Cardinality({j \in 1..k : ~Truthy(Get(items[j].node, "id"))})

\* the node's id, or prefix_<policy_id>_<line_id>_<counter>
LineChildId(prefix, items, k) ==
    IF ~Truthy(Get(items[k].node, "id"))
    THEN Str(prefix \o "_" \o Format(items[k].policy_id) \o "_" \o Format(items[k].line_id)
                    \o "_" \o ToString(IdCounter(items, k)))
    ELSE Get(items[k].node, "id")

_extract_policies(root, source_file, file_mtime, extracted_at) ==
    LET session_id == Get(root, "id")
        Row(policy) ==
          LET policy_id == Get(policy, "id")
          IN [policy_id |-> policy_id,
              session_id |-> session_id,
              effective_date |-> _get_text(find(policy, "EffectiveDate"), None),
              expiration_date |-> _get_text(find(policy, "ExpirationDate"), None),
              term |-> _get_text(find(policy, "Term"), None),
              line_of_business |-> _get_text(find(policy, "LineOfBusiness"), None),
              quote_number |-> _get_text(find(policy, "QuoteNumber"), None),
              policy_number |-> _get_text(find(policy, "PolicyNumber"), None),
              status |-> _get_text(find(policy, "Status"), None),
              last_transaction_type |-> _get_text(find(policy, "LastTransactionType"), None),
              primary_rating_state |-> _get_text(find(policy, "PrimaryRatingState"), None),
              segment |-> _get_text(find(policy, "Segment"), None),
              product |-> _get_text(find(policy, "Product"), None),
              writing_company |-> _get_text(find(policy, "WritingCompany"), None),
              filing_type |-> _get_text(find(policy, "FilingType"), None),
              agency_id |-> _get_text(find(policy, "AgencyID"), None),
              producer |-> _get_text(find(policy, "Producer"), None),
              premium |-> _get_float(find(policy, "Premium"), None),
              premium_written |-> _get_float(find(policy, "PremiumWritten"), None),
              premium_change |-> _get_float(find(policy, "PremiumChange"), None),
              transaction_date |-> _get_text(find(policy, "TransactionDate"), None),
              transaction_sequence_number |-> _get_text(find(policy, "TransactionSequenceNumber"), None),
              endorsement_number |-> _get_text(find(policy, "EndorsementNumber"), None),
              term_number |-> _get_text(find(policy, "TermNumber"), None),
              renewal_type |-> _get_text(find(policy, "RenewalType"), None),
              cancellation_date |-> _get_text(find(policy, "CancellationDate"), None),
              include_terrorism |-> _get_text(find(policy, "IncludeTerrorism"), None),
              include_gl |-> _get_text(find(policy, "IncludeGL"), None),
              include_property |-> _get_text(find(policy, "IncludeProperty"), None),
              source_file |-> source_file,
              file_modified_time |-> file_mtime,
              _extracted_at |-> extracted_at]
    IN  FlatMap(LAMBDA data : Map(Row, findall(data, "policy")), findall_deep(root, "data"))

_extract_lines(root, source_file, extracted_at) ==
    LET Row(policy_id, line) ==
          [line_id |-> Get(line, "id"),
           policy_id |-> policy_id,
           type |-> _get_text(find(line, "Type"), None),
           written |-> _get_float(line, Get(line, "written")),
           change |-> _get_float(line, Get(line, "change")),
           is_reportable |-> _get_text(find(line, "IsReportable"), None),
           is_final_report |-> _get_text(find(line, "IsFinalReport"), None),
           has_earthquake_been_selected |-> _get_text(find(line, "HasEarthquakeBeenSelected"), None),
           source_file |-> source_file,
           _extracted_at |-> extracted_at]
    IN  FlatMap(LAMBDA data :
          FlatMap(LAMBDA policy :
            Map(LAMBDA line : Row(Get(policy, "id"), line), findall(policy, "line")),
            findall(data, "policy")),
          findall_deep(root, "data"))

_extract_coverages(root, source_file, extracted_at) ==
    LET items == LineChildren(root, "coverage")
        Row(k) ==
          LET coverage == items[k].node
          IN [coverage_id |-> LineChildId("cov", items, k),
              line_id |-> items[k].line_id,
              policy_id |-> items[k].policy_id,
              type |-> _get_text(find(coverage, "Type"), None),
              premium |-> _get_float(find(coverage, "Premium"), None),
              written |-> _get_float(coverage, Get(coverage, "written")),
              change |-> _get_float(coverage, Get(coverage, "change")),
              is_cov_endorsement |-> _get_text(find(coverage, "IsCovEndorsement"), None),
              source_file |-> source_file,
              _extracted_at |-> extracted_at]
    IN  [k \in 1..Len(items) |-> Row(k)]

_extract_exposures(root, source_file, extracted_at) ==
    LET items == LineChildren(root, "exposure")
        Row(k) ==
          LET exposure == items[k].node
          IN [exposure_id |-> LineChildId("exp", items, k),
              line_id |-> items[k].line_id,
              policy_id |-> items[k].policy_id,
              type |-> _get_text(find(exposure, "Type"), None),
              i_value |-> _get_text(find(exposure, "iValue"), None),
              f_value |-> _get_float(find(exposure, "fValue"), None),
              s_value |-> _get_text(find(exposure, "sValue"), None),
              source_file |-> source_file,
              _extracted_at |-> extracted_at]
    IN  [k \in 1..Len(items) |-> Row(k)]

_extract_limits(root, source_file, extracted_at) ==
    LET items == LineChildren(root, "limit")
        Row(k) ==
          LET limit == items[k].node
          IN [limit_id |-> LineChildId("lim", items, k),
              line_id |-> items[k].line_id,
              policy_id |-> items[k].policy_id,
              type |-> _get_text(find(limit, "Type"), None),
              amount |-> _get_float(find(limit, "Amount"), None),
              i_value |-> _get_text(find(limit, "iValue"), None),
              f_value |-> _get_float(find(limit, "fValue"), None),
              scope |-> _get_text(find(limit, "Scope"), None),
              source_file |-> source_file,
              _extracted_at |-> extracted_at]
    IN  [k \in 1..Len(items) |-> Row(k)]

_extract_deductibles(root, source_file, extracted_at) ==
    LET items == LineChildren(root, "deductible")
        Row(k) ==
          LET deductible == items[k].node
          IN [deductible_id |-> LineChildId("ded", items, k),
              line_id |-> items[k].line_id,
              policy_id |-> items[k].policy_id,
              type |-> _get_text(find(deductible, "Type"), None),
              amount |-> _get_float(find(deductible, "Amount"), None),
              i_value |-> _get_text(find(deductible, "iValue"), None),
              f_value |-> _get_float(find(deductible, "fValue"), None),
              scope |-> _get_text(find(deductible, "Scope"), None),
              source_file |-> source_file,
              _extracted_at |-> extracted_at]
    IN  [k \in 1..Len(items) |-> Row(k)]

\* a rule whose records lack the deleted column that the schema declares
_extract_locations_withoutDeleted(root, source_file, extracted_at) ==
    LET Row(policy_id, account_id, location) ==
          [location_id |-> Get(location, "id"),
           account_id |-> account_id,
           policy_id |-> policy_id,
           source_file |-> source_file,
           _extracted_at |-> extracted_at]
    IN  FlatMap(LAMBDA data :
          FlatMap(LAMBDA account :
            Map(LAMBDA location : Row(FirstPolicyId(data), Get(account, "id"), location),
                findall(account, "location")),
            findall_deep(data, "account")),
          findall_deep(root, "data"))

_extract_locations(root, source_file, extracted_at) ==
    LET Row(policy_id, account_id, location) ==
          [location_id |-> Get(location, "id"),
           account_id |-> account_id,
           policy_id |-> policy_id,
           deleted |-> Get(location, "deleted"),
           source_file |-> source_file,
           _extracted_at |-> extracted_at]
    IN  FlatMap(LAMBDA data :
          FlatMap(LAMBDA account :
            Map(LAMBDA location : Row(FirstPolicyId(data), Get(account, "id"), location),
                findall(account, "location")),
            findall_deep(data, "account")),
          findall_deep(root, "data"))

\* the location a node directly under an account is given: the account's first
\* location child, or None when it has none
AssociatedLocationId(account) ==
    IF find(account, "location") # None THEN Get(find(account, "location"), "id") ELSE None

_extract_buildings(root, source_file, extracted_at) ==
    LET Row(policy_id, location_id, building) ==
          [building_id |-> Get(building, "id"),
           location_id |-> location_id,
           policy_id |-> policy_id,
           source_file |-> source_file,
           _extracted_at |-> extracted_at]
    IN  FlatMap(LAMBDA data :
          FlatMap(LAMBDA account :
            Map(LAMBDA building : Row(FirstPolicyId(data), AssociatedLocationId(account), building),
                findall(account, "building"))
            \o FlatMap(LAMBDA location :
                 Map(LAMBDA building : Row(FirstPolicyId(data), Get(location, "id"), building),
                     findall(location, "building")),
                 findall(account, "location")),
            findall_deep(data, "account")),
          findall_deep(root, "data"))

_extract_occupancies(root, source_file, extracted_at) ==
    LET Row(policy_id, location_id, occupancy) ==
          [occupancy_id |-> Get(occupancy, "id"),
           location_id |-> location_id,
           policy_id |-> policy_id,
           source_file |-> source_file,
           _extracted_at |-> extracted_at]
    IN  FlatMap(LAMBDA data :
          FlatMap(LAMBDA account :
            Map(LAMBDA occupancy : Row(FirstPolicyId(data), AssociatedLocationId(account), occupancy),
                findall(account, "occupancy"))
            \o FlatMap(LAMBDA location :
                 Map(LAMBDA occupancy : Row(FirstPolicyId(data), Get(location, "id"), occupancy),
                     findall(location, "occupancy")),
                 findall(account, "location")),
            findall_deep(data, "account")),
          findall_deep(root, "data"))

_extract_accounts(root, source_file, extracted_at) ==
    LET Row(policy_id, account) ==
          [account_id |-> Get(account, "id"),
           policy_id |-> policy_id,
           name |-> _get_text(find(account, "Name"), None),
           dba |-> _get_text(find(account, "DBA"), None),
           entity_type |-> _get_text(find(account, "EntityType"), None),
           brief_description |-> _get_text(find(account, "BriefDescription"), None),
           primary_phone |-> _get_text(find(account, "PrimaryPhone"), None),
           fax |-> _get_text(find(account, "Fax"), None),
           email |-> _get_text(find(account, "Email"), None),
           same_as_mailing_address |-> _get_text(find(account, "SameAsMailingAddress"), None),
           sic_code |-> _get_text(find(account, "SICCode"), None),
           source_file |-> source_file,
           _extracted_at |-> extracted_at]
    IN  FlatMap(LAMBDA data :
          Map(LAMBDA account : Row(FirstPolicyId(data), account), findall_deep(data, "account")),
          findall_deep(root, "data"))

_extract_addresses(root, source_file, extracted_at) ==
    LET Row(policy_id, account_id, location_id, address) ==
          [address_id |-> Get(address, "id"),
           location_id |-> location_id,
           account_id |-> account_id,
           policy_id |-> policy_id,
           latitude |-> _get_text(find(address, "Latitude"), None),
           longitude |-> _get_text(find(address, "Longitude"), None),
           last_verified |-> _get_text(find(address, "LastVerified"), None),
           source_file |-> source_file,
           _extracted_at |-> extracted_at]
    IN  FlatMap(LAMBDA data :
          FlatMap(LAMBDA account :
            Map(LAMBDA address : Row(FirstPolicyId(data), Get(account, "id"), None, address),
                findall(account, "address"))
            \o FlatMap(LAMBDA location :
                 Map(LAMBDA address :
                       Row(FirstPolicyId(data), Get(account, "id"), Get(location, "id"), address),
                     findall(location, "address")),
                 findall(account, "location")),
            findall_deep(data, "account")),
          findall_deep(root, "data"))

_extract_underwriter_referrals(root, source_file, extracted_at) ==
    LET items ==
          FlatMap(LAMBDA data :
            FlatMap(LAMBDA policy :
              FlatMap(LAMBDA referrals :
                Map(LAMBDA referral : [policy_id |-> Get(policy, "id"), node |-> referral],
                    findall(referrals, "UnderwriterReferral")),
                findall_deep(policy, "UnderwriterReferrals")),
              findall(data, "policy")),
            findall_deep(root, "data"))
        Row(k) ==
          [referral_id |->
             IF ~Truthy(Get(items[k].node, "id"))
             THEN Str("ref_" \o Format(items[k].policy_id) \o "_" \o ToString(IdCounter(items, k)))
             ELSE Get(items[k].node, "id"),
           policy_id |-> items[k].policy_id,
           source_file |-> source_file,
           _extracted_at |-> extracted_at]
    IN  [k \in 1..Len(items) |-> Row(k)]

_extract_tax_surcharges(root, source_file, extracted_at) ==
    LET items ==
          FlatMap(LAMBDA data :
            FlatMap(LAMBDA policy :
              Map(LAMBDA tax : [policy_id |-> Get(policy, "id"), line_id |-> None, node |-> tax],
                  findall(policy, "stateTaxSurcharge"))
              \o FlatMap(LAMBDA line :
                   Map(LAMBDA tax : [policy_id |-> Get(policy, "id"),
                                     line_id |-> Get(line, "id"),
                                     node |-> tax],
                       findall(line, "lineStateTaxSurcharge")),
                   findall(policy, "line")),
              findall(data, "policy")),
            findall_deep(root, "data"))
        \* tax_counter is incremented at every tax node, so at item k it is k
        Row(k) ==
          LET tax == items[k].node
              policy_id == items[k].policy_id
              line_id == items[k].line_id
              tax_id ==
                IF tax.tag = "stateTaxSurcharge"
                THEN PyOr(Get(tax, "id"), Str("tax_" \o Format(policy_id) \o "_" \o ToString(k)))
                ELSE PyOr(Get(tax, "id"),
                          Str("tax_" \o Format(policy_id) \o "_" \o Format(line_id)
                                     \o "_" \o ToString(k)))
          IN [tax_surcharge_id |-> tax_id,
              policy_id |-> policy_id,
              line_id |-> line_id,
              tax_state |-> _get_text(find(tax, "TaxState"), None),
              amount |-> _get_float(find(tax, "Amount"), None),
              written |-> _get_float(tax, Get(tax, "written")),
              change |-> _get_float(tax, Get(tax, "change")),
              type |-> _get_text(find(tax, "Type"), None),
              source_file |-> source_file,
              _extracted_at |-> extracted_at]
    IN  [k \in 1..Len(items) |-> Row(k)]

(***************************************************************************)
(* The file system.  A path is [dir, stem, ext]; a file has a modification *)
(* time (a tick) and a content: a document, or text that is not            *)
(* well-formed XML.                                                        *)
(***************************************************************************)
Path(dir, stem, ext) == [dir |-> dir, stem |-> stem, ext |-> ext]

\* os.path.basename(path)
basename(path) == path.stem \o "." \o path.ext

NoFile == [exists |-> FALSE]
File(mtime, content) == [exists |-> TRUE, mtime |-> mtime, content |-> content]

Malformed == [wellformed |-> FALSE]
Document(root) == [wellformed |-> TRUE, root |-> root]

\* fnmatch of a base name against the patterns of the model
fnmatch(path, pattern) ==
    CASE pattern = "*.xml" -> path.ext = "xml"
      [] pattern = "*" -> TRUE
      [] OTHER -> FALSE

RECURSIVE Orderings(_)
\* the sequences that list each member of S once
Orderings(S) ==
    IF S = {} THEN {<<>>}
    ELSE UNION {{<<x>> \o rest : rest \in Orderings(S \ {x})} : x \in S}

\* glob.glob(os.path.join(file_path, file_pattern)): the matching files of the
\* directory, in an order glob does not fix (one listing per order)
_get_xml_files(self, fsys) ==
    Orderings({p \in DOMAIN fsys : /\ fsys[p].exists
                                   /\ p.dir = self.file_path
                                   /\ fnmatch(p, self.file_pattern)})

\* os.path.getmtime, as an ISO string
_get_file_modified_time(fsys, file_path) == isoformat(fromtimestamp(fsys[file_path].mtime))

\* the rule of the if/elif chain; a name that matches no branch adds nothing
ExtractTable(table_name, root, source_file, file_mtime, extracted_at) ==
    CASE table_name = "policies" -> _extract_policies(root, source_file, file_mtime, extracted_at)
      [] table_name = "lines" -> _extract_lines(root, source_file, extracted_at)
      [] table_name = "coverages" -> _extract_coverages(root, source_file, extracted_at)
      [] table_name = "exposures" -> _extract_exposures(root, source_file, extracted_at)
      [] table_name = "limits" -> _extract_limits(root, source_file, extracted_at)
      [] table_name = "deductibles" -> _extract_deductibles(root, source_file, extracted_at)
      [] table_name = "locations" -> _extract_locations(root, source_file, extracted_at)
      [] table_name = "buildings" -> _extract_buildings(root, source_file, extracted_at)
      [] table_name = "occupancies" -> _extract_occupancies(root, source_file, extracted_at)
      [] table_name = "accounts" -> _extract_accounts(root, source_file, extracted_at)
      [] table_name = "addresses" -> _extract_addresses(root, source_file, extracted_at)
      [] table_name = "underwriter_referrals" ->
             _extract_underwriter_referrals(root, source_file, extracted_at)
      [] table_name = "tax_surcharges" -> _extract_tax_surcharges(root, source_file, extracted_at)
      [] OTHER -> <<>>

\* a turn of the loop that hands the rule the instant of the call where the
\* file's modification time belongs
ExtractFile_timeOfCall(table_name, fsys, file, extracted_at) ==
    IF ~fsys[file[1]].content.wellformed
    THEN <<>>
    ELSE ExtractTable(table_name, fsys[file[1]].content.root, Str(basename(file[1])),
                      extracted_at, extracted_at)

\* one turn of the loop over the files: ET.parse raises ParseError on a file
\* that is not well-formed, which the loop catches and goes on
ExtractFile(table_name, fsys, file, extracted_at) ==
    IF ~fsys[file[1]].content.wellformed
    THEN <<>>
    ELSE ExtractTable(table_name, fsys[file[1]].content.root, Str(basename(file[1])),
                      Str(Join(file[2])), extracted_at)

RECURSIVE ExtractUntilParseError(_, _, _, _)
ExtractUntilParseError(table_name, files, fsys, extracted_at) ==
    IF files = <<>> \/ ~fsys[Head(files)[1]].content.wellformed
    THEN <<>>
    ELSE ExtractFile(table_name, fsys, Head(files), extracted_at)
           \o ExtractUntilParseError(table_name, Tail(files), fsys, extracted_at)

\* a loop that a ParseError ends: the try statement around the loop, not in it
_extract_table_records_aborting(table_name, files, fsys, utcnow) ==
    ExtractUntilParseError(table_name, files, fsys, Str(Join(isoformat(fromtimestamp(utcnow)))))

\* the well-formed roots among the files before position i
RECURSIVE KidsBefore(_, _, _)
KidsBefore(files, fsys, i) ==
    IF i <= 1 THEN <<>>
    ELSE KidsBefore(files, fsys, i - 1)
           \o (IF fsys[files[i - 1][1]].content.wellformed
               THEN fsys[files[i - 1][1]].content.root.kids ELSE <<>>)

\* counters that are not reset between the files: the rows of file i are the
\* last rows of the rule run over the nodes of the earlier files and its own
_extract_table_records_sharedCounters(table_name, files, fsys, utcnow) ==
    LET extracted_at == Str(Join(isoformat(fromtimestamp(utcnow))))
        Rows(i) ==
          LET own == ExtractFile(table_name, fsys, files[i], extracted_at)
              root == fsys[files[i][1]].content.root
              all == ExtractTable(table_name,
                                  [root EXCEPT !.kids = KidsBefore(files, fsys, i) \o @],
                                  Str(basename(files[i][1])), Str(Join(files[i][2])),
                                  extracted_at)
          IN  IF own = <<>> THEN <<>>
              ELSE SubSeq(all, Len(all) - Len(own) + 1, Len(all))
    IN  FlatMap(Rows, [k \in 1..Len(files) |-> k])

\* a clock that is read at every file, half a second after the file before
_extract_table_records_perFileClock(table_name, files, fsys, utcnow) ==
    FlatMap(LAMBDA i : ExtractFile(table_name, fsys, files[i],
                                   Str(Join(isoformat(fromtimestamp(utcnow + i - 1))))),
            [k \in 1..Len(files) |-> k])

\* files: a list of (file_path, modified_time); utcnow: the clock, read once
_extract_table_records(table_name, files, fsys, utcnow) ==
    LET extracted_at == Str(Join(isoformat(fromtimestamp(utcnow))))
    IN  FlatMap(LAMBDA file : ExtractFile(table_name, fsys, file, extracted_at), files)

(***************************************************************************)
(* read_table.                                                             *)
(***************************************************************************)
EmptyDict == <<>>
Offset(last_modified_time) == [last_modified_time |-> last_modified_time]

\* a lookup under a key the offsets do not have: every call is a first call
LastModifiedTime_wrongKey(start_offset) ==
    IF "last_modified" \in DOMAIN start_offset THEN start_offset.last_modified ELSE <<>>

\* start_offset.get("last_modified_time", "")
LastModifiedTime(start_offset) ==
    IF "last_modified_time" \in DOMAIN start_offset
    THEN start_offset.last_modified_time
    ELSE <<>>

\* a loop that also keeps a file modified exactly at the watermark
IsNewer_orEqual(file_mtime, last_modified_time) ==
    last_modified_time = <<>> \/ ~StrLt(file_mtime, last_modified_time)

\* whether the loop keeps a file with this modification time
IsNewer(file_mtime, last_modified_time) ==
    last_modified_time = <<>> \/ StrGt(file_mtime, last_modified_time)

\* a loop that keeps the time of the last kept file, whatever the maximum so far
NewMax_last(file_mtime, max_modified_time) == file_mtime

\* max_modified_time after a kept file
NewMax(file_mtime, max_modified_time) ==
    IF StrGt(file_mtime, max_modified_time) THEN file_mtime ELSE max_modified_time

\* a maximum that starts from the empty string instead of the watermark
InitialMax_empty(last_modified_time) == <<>>

\* max_modified_time before the loop
InitialMax(last_modified_time) == last_modified_time

RECURSIVE FilterLoop_parsedOnly(_, _, _, _, _)
\* a loop that lets only the files that parse raise max_modified_time
FilterLoop_parsedOnly(xml_files, fsys, last_modified_time, files_to_process, max_modified_time) ==
    IF xml_files = <<>>
    THEN [files_to_process |-> files_to_process, max_modified_time |-> max_modified_time]
    ELSE LET file_path == Head(xml_files)
             file_mtime == _get_file_modified_time(fsys, file_path)
         IN  IF IsNewer(file_mtime, last_modified_time)
             THEN FilterLoop_parsedOnly(
                      Tail(xml_files), fsys, last_modified_time,
                      Append(files_to_process, <<file_path, file_mtime>>),
                      IF fsys[file_path].content.wellformed
                      THEN NewMax(file_mtime, max_modified_time)
                      ELSE max_modified_time)
             ELSE FilterLoop_parsedOnly(Tail(xml_files), fsys, last_modified_time,
                                        files_to_process, max_modified_time)

RECURSIVE FilterLoop(_, _, _, _, _)
\* the loop over xml_files that fills files_to_process and max_modified_time
FilterLoop(xml_files, fsys, last_modified_time, files_to_process, max_modified_time) ==
    IF xml_files = <<>>
    THEN [files_to_process |-> files_to_process, max_modified_time |-> max_modified_time]
    ELSE LET file_path == Head(xml_files)
             file_mtime == _get_file_modified_time(fsys, file_path)
         IN  IF IsNewer(file_mtime, last_modified_time)
             THEN FilterLoop(Tail(xml_files), fsys, last_modified_time,
                             Append(files_to_process, <<file_path, file_mtime>>),
                             NewMax(file_mtime, max_modified_time))
             ELSE FilterLoop(Tail(xml_files), fsys, last_modified_time,
                             files_to_process, max_modified_time)

\* xml_files: the listing _get_xml_files gave.  The value is the record
\* iterator's content and the new offset, with the local files_to_process.
read_table(table_name, start_offset, fsys, xml_files, utcnow) ==
    LET last_modified_time == LastModifiedTime(start_offset)
        loop == FilterLoop(xml_files, fsys, last_modified_time, <<>>,
                           InitialMax(last_modified_time))
    IN  IF xml_files = <<>>
        THEN Return([records |-> <<>>,
                     new_offset |-> Offset(last_modified_time),
                     files_to_process |-> <<>>])
        ELSE Return([records |-> _extract_table_records(table_name, loop.files_to_process,
                                                        fsys, utcnow),
                     new_offset |-> Offset(loop.max_modified_time),
                     files_to_process |-> loop.files_to_process])

(***************************************************************************)
(* The documents of the model: a session root, MaxDepth or fewer wrapper   *)
(* elements, a data element with its policies, their lines and the nodes   *)
(* under a line, and the accounts with their locations and buildings.      *)
(***************************************************************************)
Range(n) == [k \in 1..n |-> k]

Chars(s) ==
    CASE s = "12.5" -> <<"1", "2", ".", "5">>
      [] s = " 7 " -> <<" ", "7", " ">>
      [] s = "n/a" -> <<"n", "/", "a">>
      [] s = "250.0" -> <<"2", "5", "0", ".", "0">>
      [] s = "100.0" -> <<"1", "0", "0", ".", "0">>
      [] OTHER -> <<s>>

\* the texts of the numeric child elements: a number, a padded number, no number
NumericTexts == {"12.5", " 7 ", "n/a"}

Leaf(tag, text) == Element(tag, NoAttrs, Chars(text), <<>>)

\* the first node of a kind under a line carries an id when firstHasId
IdAttrs(prefix, k, firstHasId) ==
    IF firstHasId /\ k = 1 THEN [id |-> prefix \o ToString(k)] ELSE NoAttrs

Amounts == [written |-> "100.0", change |-> "n/a"]

LineNodes(k, firstHasId, text) ==
    <<Element("coverage", IdAttrs("C", k, firstHasId) @@ Amounts, <<>>,
              <<Leaf("Type", "BI"), Leaf("Premium", text), Leaf("IsCovEndorsement", "N")>>),
      Element("exposure", IdAttrs("E", k, firstHasId), <<>>,
              <<Leaf("Type", "Payroll"), Leaf("iValue", "3"), Leaf("fValue", text)>>),
      Element("limit", IdAttrs("LM", k, firstHasId), <<>>,
              <<Leaf("Type", "Occurrence"), Leaf("Amount", text), Leaf("Scope", "Line")>>),
      Element("deductible", IdAttrs("D", k, firstHasId), <<>>,
              <<Leaf("Type", "PD"), Leaf("Amount", text), Leaf("fValue", "12.5")>>),
      Element("lineStateTaxSurcharge", IdAttrs("T", k, firstHasId) @@ Amounts, <<>>,
              <<Leaf("TaxState", "KY"), Leaf("Amount", text)>>)>>

Line(l, nCov, firstHasId, text) ==
    Element("line", [id |-> "L" \o ToString(l), written |-> "250.0", change |-> "0"], <<>>,
            <<Leaf("Type", "GL"), Leaf("IsReportable", "Y")>>
              \o FlatMap(LAMBDA k : LineNodes(k, firstHasId, text), Range(nCov)))

\* what a policy carries beside its lines: a tax surcharge and a referral
\* without ids, when its lines have nodes
PolicyNodes(nCov, text) ==
    IF nCov = 0 THEN <<>>
    ELSE <<Element("stateTaxSurcharge", Amounts, <<>>,
                   <<Leaf("TaxState", "KY"), Leaf("Amount", text), Leaf("Type", "Tax")>>),
           Element("UnderwriterReferrals", NoAttrs, <<>>,
                   <<Element("UnderwriterReferral", NoAttrs, <<>>, <<>>),
                     Element("UnderwriterReferral", [id |-> "R2"], <<>>, <<>>)>>)>>

Policy(i, text, kids) ==
    Element("policy", [id |-> "P" \o ToString(i)], <<>>,
            <<Leaf("EffectiveDate", "2024-01-01"), Leaf("Status", "Bound"),
              Leaf("Premium", text)>> \o kids)

AccountNodes(i, k) ==
    <<Element("building", [id |-> "A" \o ToString(i) \o "B" \o ToString(k)], <<>>, <<>>),
      Element("occupancy", [id |-> "A" \o ToString(i) \o "O" \o ToString(k)], <<>>, <<>>),
      Element("address", [id |-> "A" \o ToString(i) \o "AD" \o ToString(k)], <<>>,
              <<Leaf("Latitude", "38.2"), Leaf("Longitude", "-85.7")>>)>>

Location(i, k) ==
    Element("location", [id |-> "A" \o ToString(i) \o "L" \o ToString(k), deleted |-> "0"],
            <<>>, AccountNodes(i, k))

\* account i with nLoc locations; with direct, a building, an occupancy and an
\* address are children of the account itself
Account(i, nLoc, direct) ==
    Element("account", [id |-> "A" \o ToString(i)], <<>>,
            <<Leaf("Name", "Acme")>>
              \o (IF direct THEN AccountNodes(i, 0) ELSE <<>>)
              \o Map(LAMBDA k : Location(i, k), Range(nLoc)))

RECURSIVE Wrap(_, _)
Wrap(depth, elem) ==
    IF depth = 0 THEN elem ELSE Element("wrapper", NoAttrs, <<>>, <<Wrap(depth - 1, elem)>>)

Session(depth, kids) ==
    Document(Element("session", [id |-> "S1"], <<>>,
                     <<Wrap(depth, Element("data", NoAttrs, <<>>, kids))>>))

LineDoc(depth, nPol, nLine, nCov, firstHasId, text) ==
    Session(depth,
            Map(LAMBDA i : Policy(i, text,
                                  Map(LAMBDA l : Line(l, nCov, firstHasId, text), Range(nLine))
                                    \o PolicyNodes(nCov, text)),
                Range(nPol)))

\* placement "policy": every policy holds its own account;
\* placement "data": one account is a child of the data element, after the policies
AccountDoc(depth, nPol, placement, nLoc, direct) ==
    Session(depth,
            Map(LAMBDA i : Policy(i, "12.5",
                                  IF placement = "policy"
                                  THEN <<Account(i, nLoc, direct)>> ELSE <<>>),
                Range(nPol))
              \o (IF placement = "data" THEN <<Account(1, nLoc, direct)>> ELSE <<>>))

LineDocs ==
    {LineDoc(depth, nPol, nLine, nCov, firstHasId, text) :
        depth \in 0..MaxDepth, nPol \in 0..MaxPolicies, nLine \in 0..MaxLines,
        nCov \in 0..MaxCoverages, firstHasId \in BOOLEAN, text \in NumericTexts}

AccountDocs ==
    {AccountDoc(depth, nPol, placement, nLoc, direct) :
        depth \in 0..MaxDepth, nPol \in 0..MaxPolicies, placement \in {"policy", "data"},
        nLoc \in 0..MaxLocations, direct \in BOOLEAN}

\* a document whose data element lies in another data element
Nest(doc) ==
    Document([doc.root EXCEPT !.kids = <<Element("data", NoAttrs, <<>>, @)>>])

NestedDocs ==
    {Nest(AccountDoc(0, 1, placement, 1, direct)) :
        placement \in {"policy", "data"}, direct \in BOOLEAN}
      \cup {Nest(LineDoc(0, 1, 1, 1, FALSE, "12.5"))}

Docs == LineDocs \cup AccountDocs \cup NestedDocs

\* the documents of the runs over several files
BatchDocs ==
    {LineDoc(0, 1, 1, MaxCoverages, FALSE, "12.5"),
     LineDoc(MaxDepth, MaxPolicies, 1, 1, TRUE, "n/a"),
     AccountDoc(0, 1, "policy", 1, TRUE),
     AccountDoc(0, 0, "data", MaxLocations, FALSE)}

\* the document of the runs that follow the watermark
ChainDoc == LineDoc(0, 1, 1, 1, FALSE, "12.5")

(***************************************************************************)
(* The state: the connector, the directory, the caller's offset, and the   *)
(* call in progress.                                                       *)
(***************************************************************************)
VARIABLES
    self,       \* the connector's fields: file_path, file_pattern
    fs,         \* path -> NoFile or File(mtime, content)
    offset,     \* the offset the caller holds for its next read_table
    pc,         \* "idle", or "returned": a call has handed back its result
    call,       \* the call that returned: its arguments and its result
    processed   \* path -> the reads of the caller's chain that processed the file
                \*         since its modification time was last set (2: two or more)

vars == <<self, fs, offset, pc, call, processed>>

Dir == "/Volumes/in"
XmlA == Path(Dir, "a", "xml")
XmlB == Path(Dir, "b", "xml")
Notes == Path(Dir, "notes", "txt")
Paths == {XmlA, XmlB, Notes}

\* the names a caller asks for: the tables, and names that are no table
UnknownNames == {"claims", "Policies"}
Names == {list_tables[i] : i \in 1..Len(list_tables)} \cup UnknownNames
ChainNames == {"policies", "buildings", "claims"}

\* the instants at which a call reads the clock
Clock == {0, MaxTick}

StartOffsets == {EmptyDict} \cup {Offset(<<>>)} \cup {Offset(isoformat(fromtimestamp(t))) : t \in Ticks}

NoCall == [op |-> "none"]

\* __init__ with options {"file_path": Dir}
Constructed == [file_path |-> Dir, file_pattern |-> "*.xml"]

Init ==
    /\ self = Constructed
    /\ fs = [p \in Paths |-> NoFile]
    /\ offset = EmptyDict
    /\ pc = "idle"
    /\ call = NoCall
    /\ processed = [p \in Paths |-> 0]

\* the directory changes: a file is written (created, rewritten or touched)
WriteFile(p, t, c) ==
    /\ pc = "idle"
    /\ fs[p] # File(t, c)
    /\ fs' = [fs EXCEPT ![p] = File(t, c)]
    /\ processed' = [processed EXCEPT
                       ![p] = IF fs[p].exists /\ fs[p].mtime = t THEN @ ELSE 0]
    /\ UNCHANGED <<self, offset, pc, call>>

DeleteFile(p) ==
    /\ pc = "idle"
    /\ fs[p].exists
    /\ fs' = [fs EXCEPT ![p] = NoFile]
    /\ processed' = [processed EXCEPT ![p] = 0]
    /\ UNCHANGED <<self, offset, pc, call>>

\* read_table(table_name, start_offset, {})
ReadTable(table_name, start_offset) ==
    /\ pc = "idle"
    /\ \E xml_files \in _get_xml_files(self, fs), utcnow \in Clock :
         LET result == read_table(table_name, start_offset, fs, xml_files, utcnow)
         IN  call' = [op |-> "read_table",
                      table_name |-> table_name,
                      start_offset |-> start_offset,
                      xml_files |-> xml_files,
                      utcnow |-> utcnow,
                      raised |-> result.raised,
                      records |-> result.value.records,
                      new_offset |-> result.value.new_offset,
                      files_to_process |-> result.value.files_to_process]
    /\ pc' = "returned"
    /\ UNCHANGED <<self, fs, offset, processed>>

\* the caller keeps the new offset of a read it made with the offset it held
Commit ==
    /\ pc = "returned"
    /\ call.op = "read_table"
    /\ call.raised = ""
    /\ call.start_offset = offset
    /\ offset' = call.new_offset
    /\ processed' = [p \in Paths |->
                       IF \E i \in 1..Len(call.files_to_process) : call.files_to_process[i][1] = p
                       THEN IF processed[p] = 0 THEN 1 ELSE 2
                       ELSE processed[p]]
    /\ pc' = "idle"
    /\ call' = NoCall
    /\ UNCHANGED <<self, fs>>

\* the caller drops the result
Discard ==
    /\ pc = "returned"
    /\ pc' = "idle"
    /\ call' = NoCall
    /\ UNCHANGED <<self, fs, offset, processed>>

ListTables ==
    /\ pc = "idle"
    /\ call' = [op |-> "list_tables", raised |-> "", value |-> list_tables]
    /\ pc' = "returned"
    /\ UNCHANGED <<self, fs, offset, processed>>

GetTableSchema(table_name) ==
    /\ pc = "idle"
    /\ call' = [op |-> "get_table_schema",
                table_name |-> table_name,
                raised |-> get_table_schema(table_name).raised,
                value |-> get_table_schema(table_name).value]
    /\ pc' = "returned"
    /\ UNCHANGED <<self, fs, offset, processed>>

ReadTableMetadata(table_name) ==
    /\ pc = "idle"
    /\ call' = [op |-> "read_table_metadata",
                table_name |-> table_name,
                raised |-> read_table_metadata(table_name).raised,
                value |-> read_table_metadata(table_name).value]
    /\ pc' = "returned"
    /\ UNCHANGED <<self, fs, offset, processed>>

\* the contents a file of the model may have
ChainContents(p) == IF p.ext = "xml" THEN {ChainDoc, Malformed} ELSE {Malformed}

(***************************************************************************)
(* Spec: a caller that follows the watermark over a directory whose files  *)
(* come, change and go between the calls.                                  *)
(***************************************************************************)
Next ==
    \/ \E p \in Paths, t \in Ticks : \E c \in ChainContents(p) : WriteFile(p, t, c)
    \/ \E p \in Paths : DeleteFile(p)
    \/ \E table_name \in ChainNames : ReadTable(table_name, offset)
    \/ Commit
    \/ Discard

Spec == Init /\ [][Next]_vars

(***************************************************************************)
(* SpecRewrite: the same caller over a directory where every write of a    *)
(* file gives it another modification time, as a file system does that     *)
(* stamps the time of the write: a file that keeps its time has kept its   *)
(* content.                                                                *)
(***************************************************************************)
NextRewrite ==
    \/ \E p \in Paths, t \in Ticks : \E c \in ChainContents(p) :
         /\ fs[p].exists => fs[p].mtime # t
         /\ WriteFile(p, t, c)
    \/ \E p \in Paths : DeleteFile(p)
    \/ \E table_name \in ChainNames : ReadTable(table_name, offset)
    \/ Commit
    \/ Discard

SpecRewrite == Init /\ [][NextRewrite]_vars

(***************************************************************************)
(* SpecBatch: one call over a directory of two XML files and a text file,  *)
(* for every name and every start offset.                                  *)
(***************************************************************************)
InitBatch ==
    /\ self = Constructed
    /\ \E ca \in BatchDocs \cup {Malformed}, cb \in BatchDocs \cup {Malformed, NoFile} :
         fs = [p \in Paths |->
                 IF p = XmlA THEN File(0, ca)
                 ELSE IF p = XmlB THEN (IF cb = NoFile THEN NoFile ELSE File(1, cb))
                 ELSE File(MaxTick, Malformed)]
    /\ offset = EmptyDict
    /\ pc = "idle"
    /\ call = NoCall
    /\ processed = [p \in Paths |-> 0]

NextBatch ==
    \/ \E table_name \in Names, start_offset \in StartOffsets : ReadTable(table_name, start_offset)
    \/ ListTables
    \/ \E table_name \in Names : GetTableSchema(table_name)
    \/ \E table_name \in Names : ReadTableMetadata(table_name)

SpecBatch == InitBatch /\ [][NextBatch]_vars

(***************************************************************************)
(* SpecExtract: one first read of each table over one document.            *)
(***************************************************************************)
InitExtract ==
    /\ self = Constructed
    /\ \E doc \in Docs :
         fs = [p \in Paths |-> IF p = XmlA THEN File(1, doc) ELSE NoFile]
    /\ offset = EmptyDict
    /\ pc = "idle"
    /\ call = NoCall
    /\ processed = [p \in Paths |-> 0]

NextExtract ==
    \E i \in 1..Len(list_tables) : ReadTable(list_tables[i], EmptyDict)

SpecExtract == InitExtract /\ [][NextExtract]_vars

(***************************************************************************)
(* SpecConstruct: the connector is constructed from the caller's options,  *)
(* and a connector that was constructed reads a directory.                 *)
(***************************************************************************)
\* options.get(key, default)
DictGet(options, key, default) == IF key \in DOMAIN options THEN options[key] ELSE default

\* a constructor that takes any file_path
__init___withoutCheck(options) ==
    LET file_path == DictGet(options, "file_path", Str(""))
    IN  Return([file_path |-> IF file_path = None THEN "" ELSE file_path.s,
                file_pattern |-> DictGet(options, "file_pattern", Str("*.xml")).s])

\* LakeflowConnect(options): the new connector, or the error raised
__init__(options) ==
    LET file_path == DictGet(options, "file_path", Str(""))
        file_pattern == DictGet(options, "file_pattern", Str("*.xml"))
    IN  IF ~Truthy(file_path)
        THEN Raise("ValueError: file_path option is required")
        ELSE Return([file_path |-> file_path.s, file_pattern |-> file_pattern.s])

\* no connector: none was constructed, or the constructor raised
NoConnector == None

OtherDir == "/Volumes/other"

\* the options of the callers: each key present or not, a path that is null,
\* empty, the directory of the files or another one
OptionValues ==
    [file_path : {None, Str(""), Str(Dir), Str(OtherDir)},
     file_pattern : {Str("*.xml"), Str("*")}]

OptionDicts ==
    {[k \in keys |-> o[k]] : keys \in SUBSET {"file_path", "file_pattern"}, o \in OptionValues}

Construct(options) ==
    /\ pc = "idle"
    /\ self = NoConnector
    /\ self' = (IF __init__(options).raised = "" THEN __init__(options).value ELSE NoConnector)
    /\ call' = [op |-> "__init__", options |-> options, raised |-> __init__(options).raised]
    /\ pc' = "returned"
    /\ UNCHANGED <<fs, offset, processed>>

InitConstruct ==
    /\ self = NoConnector
    /\ \E ca \in {ChainDoc, Malformed}, t \in Ticks :
         fs = [p \in Paths |->
                 IF p = XmlA THEN File(t, ca)
                 ELSE IF p = XmlB THEN NoFile
                 ELSE File(MaxTick, Malformed)]
    /\ offset = EmptyDict
    /\ pc = "idle"
    /\ call = NoCall
    /\ processed = [p \in Paths |-> 0]

NextConstruct ==
    \/ \E options \in OptionDicts : Construct(options)
    \/ self # NoConnector /\ \E table_name \in ChainNames : ReadTable(table_name, offset)
    \/ Commit
    \/ Discard

SpecConstruct == InitConstruct /\ [][NextConstruct]_vars

(***************************************************************************)
(* SpecParallel: two threads of a host call read_table on the one          *)
(* connector, each for its table, with the same start offset, over a       *)
(* directory that does not change.  A call advances a statement, or a turn *)
(* of a loop, at a time; pc and call hold each thread's position and the   *)
(* local variables of its call.                                            *)
(***************************************************************************)
Threads == {1, 2}

\* the tables each thread asks for
ParallelNames == <<{"policies", "coverages"}, {"coverages", "buildings"}>>

\* the local variables of a call that has not begun
NoLocals ==
    [table_name |-> "", start_offset |-> EmptyDict, last_modified_time |-> <<>>,
     xml_files |-> <<>>, i |-> 1, files_to_process |-> <<>>, max_modified_time |-> <<>>,
     utcnow |-> 0, j |-> 1, records |-> <<>>, new_offset |-> EmptyDict]

\* variables that are attributes of the connector, which the threads share:
\* every thread reads those the first thread left
Locals_onSelf(frames, t) == frames[1]

\* the local variables of thread t's call
Locals(frames, t) == frames[t]

\* records.extend(rows)
Extend(records, rows) == records \o rows

\* line 347
Enter(t, table_name) ==
    /\ pc[t] = "idle"
    /\ call' = [call EXCEPT ![t] =
                  [Locals(call, t) EXCEPT
                     !.table_name = table_name,
                     !.start_offset = offset,
                     !.last_modified_time = LastModifiedTime(offset)]]
    /\ pc' = [pc EXCEPT ![t] = "glob"]
    /\ UNCHANGED <<self, fs, offset, processed>>

\* lines 350-357: the listing, the early return, the start of the loop
Glob(t) ==
    /\ pc[t] = "glob"
    /\ \E xml_files \in _get_xml_files(self, fs) :
         /\ call' = [call EXCEPT ![t] =
                       [Locals(call, t) EXCEPT
                          !.xml_files = xml_files,
                          !.i = 1,
                          !.files_to_process = <<>>,
                          !.max_modified_time = InitialMax(Locals(call, t).last_modified_time),
                          !.records = <<>>,
                          !.new_offset = IF xml_files = <<>>
                                         THEN Offset(Locals(call, t).last_modified_time)
                                         ELSE EmptyDict]]
         /\ pc' = [pc EXCEPT ![t] = IF xml_files = <<>> THEN "returned" ELSE "filter"]
    /\ UNCHANGED <<self, fs, offset, processed>>

\* lines 359-364: one turn of the loop over xml_files
Filter(t) ==
    LET f == Locals(call, t)
    IN  /\ pc[t] = "filter"
        /\ f.i <= Len(f.xml_files)
        /\ LET file_path == f.xml_files[f.i]
               file_mtime == _get_file_modified_time(fs, file_path)
               selected == IsNewer(file_mtime, f.last_modified_time)
           IN  call' = [call EXCEPT ![t] =
                          [f EXCEPT
                             !.i = f.i + 1,
                             !.files_to_process =
                                IF selected THEN Append(@, <<file_path, file_mtime>>) ELSE @,
                             !.max_modified_time =
                                IF selected THEN NewMax(file_mtime, @) ELSE @]]
        /\ UNCHANGED <<self, fs, offset, pc, processed>>

\* line 397: the loop is over, the clock is read
ReadClock(t) ==
    LET f == Locals(call, t)
    IN  /\ pc[t] = "filter"
        /\ f.i > Len(f.xml_files)
        /\ \E utcnow \in Clock :
             call' = [call EXCEPT ![t] = [f EXCEPT !.utcnow = utcnow, !.j = 1, !.records = <<>>]]
        /\ pc' = [pc EXCEPT ![t] = "extract"]
        /\ UNCHANGED <<self, fs, offset, processed>>

\* lines 399-436: one turn of the loop over files
Extract(t) ==
    LET f == Locals(call, t)
    IN  /\ pc[t] = "extract"
        /\ f.j <= Len(f.files_to_process)
        /\ call' = [call EXCEPT ![t] =
                      [f EXCEPT
                         !.j = f.j + 1,
                         !.records =
                            Extend(@, ExtractFile(f.table_name, fs, f.files_to_process[f.j],
                                                  Str(Join(isoformat(fromtimestamp(f.utcnow))))))]]
        /\ UNCHANGED <<self, fs, offset, pc, processed>>

\* lines 438, 369-371
ReturnRead(t) ==
    LET f == Locals(call, t)
    IN  /\ pc[t] = "extract"
        /\ f.j > Len(f.files_to_process)
        /\ call' = [call EXCEPT ![t] = [f EXCEPT !.new_offset = Offset(f.max_modified_time)]]
        /\ pc' = [pc EXCEPT ![t] = "returned"]
        /\ UNCHANGED <<self, fs, offset, processed>>

\* the documents of the directory the threads read
ParallelDocs == {LineDoc(0, 1, 1, 1, FALSE, "12.5"), AccountDoc(0, 1, "policy", 1, TRUE)}

InitParallel ==
    /\ self = Constructed
    /\ \E ca \in ParallelDocs, cb \in ParallelDocs \cup {Malformed} :
         fs = [p \in Paths |->
                 IF p = XmlA THEN File(0, ca)
                 ELSE IF p = XmlB THEN File(1, cb)
                 ELSE File(MaxTick, Malformed)]
    /\ offset \in {EmptyDict, Offset(isoformat(fromtimestamp(0)))}
    /\ pc = [t \in Threads |-> "idle"]
    /\ call = [t \in Threads |-> NoLocals]
    /\ processed = [p \in Paths |-> 0]

NextParallel ==
    \E t \in Threads :
        \/ \E table_name \in ParallelNames[t] : Enter(t, table_name)
        \/ Glob(t)
        \/ Filter(t)
        \/ ReadClock(t)
        \/ Extract(t)
        \/ ReturnRead(t)

SpecParallel == InitParallel /\ [][NextParallel]_vars

(***************************************************************************)
(* What the claims speak of.                                               *)
(***************************************************************************)
ReadReturned == pc = "returned" /\ call.op = "read_table"

\* the watermark of an offset object: empty in the offset of a first sync
WatermarkOf(o) == IF o = EmptyDict THEN <<>> ELSE o.last_modified_time

\* the watermark a read was given, and the one it handed back
Incoming == WatermarkOf(call.start_offset)
Outgoing == WatermarkOf(call.new_offset)

\* the files the configured pattern matches
Matching == {p \in Paths : fs[p].exists /\ p.dir = Dir /\ p.ext = "xml"}

\* the files the read selected for processing
Selected == {call.files_to_process[i][1] : i \in 1..Len(call.files_to_process)}

IsoOf(t) == isoformat(fromtimestamp(t))

\* the latest modification time among the files of S, as a tick
LatestTick(S) == CHOOSE t \in {fs[p].mtime : p \in S} : \A p \in S : fs[p].mtime <= t

\* a watermark is empty or the time stamp of a tick w; a file is after it when
\* the watermark is empty or the file's tick is greater than w
IsAfter(p, watermark) ==
    \/ watermark = <<>>
    \/ \E w \in Ticks : watermark = IsoOf(w) /\ fs[p].mtime > w

\* a read made with the offset the caller holds: a call of the caller's chain
ChainRead == ReadReturned /\ call.start_offset = offset

C1_Call ==
    ReadReturned =>
        /\ ~StrLt(Outgoing, Incoming)
        /\ Outgoing = IF Selected = {} THEN Incoming ELSE IsoOf(LatestTick(Selected))

\* C1: for every read call the outgoing watermark is >= the incoming one and is
\* the latest modification time among the files selected in the call, or the
\* incoming watermark when none was selected; the offset the caller carries from
\* call to call never moves backward.
C1_WatermarkNeverMovesBack ==
    /\ [](C1_Call)
    /\ [][~StrLt(WatermarkOf(offset'), WatermarkOf(offset))]_vars

\* a read with a watermark that selected two files of different times, the
\* later one listed first
C1_Witness ==
    /\ ReadReturned
    /\ Incoming # <<>>
    /\ Len(call.files_to_process) = 2
    /\ StrGt(call.files_to_process[1][2], call.files_to_process[2][2])
    /\ StrGt(Outgoing, Incoming)

\* C2: a matching file is selected if and only if the incoming watermark is empty
\* or the file's modification time is strictly greater than it; a file modified
\* exactly at the watermark is not selected, an empty watermark selects every
\* matching file, and each selected file is paired with its modification time.
C2_Selection ==
    ReadReturned =>
        /\ Selected = {p \in Matching : IsAfter(p, Incoming)}
        /\ \A p \in Matching : Incoming = IsoOf(fs[p].mtime) => p \notin Selected
        /\ Incoming = <<>> => Selected = Matching
        /\ Len(call.files_to_process) = Cardinality(Selected)
        /\ \A i \in 1..Len(call.files_to_process) :
             call.files_to_process[i][2] = IsoOf(fs[call.files_to_process[i][1]].mtime)

\* a read that left out a file modified exactly at the watermark and selected a
\* later one
C2_Witness ==
    /\ ReadReturned
    /\ \E p \in Matching : Incoming = IsoOf(fs[p].mtime) /\ p \notin Selected
    /\ Selected # {}

\* C3: in a chain of reads that starts from an empty watermark and feeds each
\* outgoing watermark into the next call, a call with an empty watermark processes
\* every matching file and returns the latest modification time; a call made while
\* no matching file is after the watermark returns no record and the same
\* watermark; and a file whose modification time does not change is processed by
\* at most one call of the chain.
C3_Chain ==
    /\ (ChainRead /\ Incoming = <<>>) =>
          /\ Selected = Matching
          /\ Matching # {} => Outgoing = IsoOf(LatestTick(Matching))
    /\ (ChainRead /\ \A p \in Matching : ~IsAfter(p, Incoming)) =>
          /\ call.records = <<>>
          /\ Outgoing = Incoming
    /\ \A p \in Paths : processed[p] <= 1

\* the second call of the scenario: both files were processed once by the chain,
\* and a further read returns nothing and the same watermark
C3_Witness ==
    /\ ChainRead
    /\ processed[XmlA] = 1 /\ processed[XmlB] = 1
    /\ fs[XmlA].content.wellformed /\ fs[XmlB].content.wellformed
    /\ fs[XmlA].mtime < fs[XmlB].mtime
    /\ Incoming = IsoOf(fs[XmlB].mtime)
    /\ call.records = <<>>
    /\ Outgoing = Incoming

\* the matching files a read with this watermark has to process
Qualifying(watermark) == {p \in Matching : watermark = <<>> \/ StrGt(IsoOf(fs[p].mtime), watermark)}

\* C4: a read that finds no qualifying file (no file matches the pattern, or no
\* matching file is newer than the watermark) returns no record and the incoming
\* watermark, and raises nothing.
C4_NothingToProcess ==
    (ReadReturned /\ Qualifying(Incoming) = {}) =>
        /\ call.raised = ""
        /\ call.records = <<>>
        /\ Outgoing = Incoming

\* a read with a watermark over a directory whose text file does not match and
\* whose XML file is not newer than the watermark
C4_Witness ==
    /\ ReadReturned
    /\ Incoming # <<>>
    /\ fs[Notes].exists
    /\ Matching # {}
    /\ Qualifying(Incoming) = {}
    /\ call.records = <<>>

\* the files of the directory that are well-formed XML, and the directory
\* without the others
WellFormed(p) == fs[p].exists /\ fs[p].content.wellformed

WithoutMalformed == [p \in Paths |-> IF WellFormed(p) THEN fs[p] ELSE NoFile]

\* C5: a read over several selected files of which some are not well-formed does
\* not fail; a malformed file contributes no record, and the records are those
\* of the well-formed selected files, in their order, wherever the malformed
\* files stand in the processing order.
C5_MalformedFilesAreSkipped ==
    ReadReturned =>
        /\ call.raised = ""
        /\ \A i \in 1..Len(call.records) :
             \E p \in Selected : WellFormed(p) /\ call.records[i].source_file = Str(basename(p))
        /\ call.records =
             read_table(call.table_name, call.start_offset, WithoutMalformed,
                        SelectSeq(call.xml_files, WellFormed), call.utcnow).value.records

\* a read that processed a malformed file first and then a well-formed one, whose
\* records it returned
C5_Witness ==
    /\ ReadReturned
    /\ Len(call.files_to_process) = 2
    /\ ~WellFormed(call.files_to_process[1][1])
    /\ WellFormed(call.files_to_process[2][1])
    /\ call.records # <<>>

TableNames == {list_tables[i] : i \in 1..Len(list_tables)}

\* C6: a read call naming a table that is not in the catalog fails with an
\* UnknownTable error and returns neither records nor a watermark.
C6_UnknownTableFails ==
    (ReadReturned /\ call.table_name \notin TableNames) => call.raised # ""

\* C7: the schema interface and the metadata interface succeed for exactly the
\* 13 names the table enumeration returns, and fail with the unknown-table error
\* for every other name.
C7_CatalogNames ==
    /\ Len(list_tables) = 13
    /\ Cardinality(TableNames) = 13
    /\ (pc = "returned" /\ call.op \in {"get_table_schema", "read_table_metadata"}) =>
          /\ call.raised = "" <=> call.table_name \in TableNames
          /\ call.raised # "" => call.raised = "ValueError: Unknown table"

\* the schema interface asked for a name that is no table, and failing
C7_Witness ==
    /\ pc = "returned"
    /\ call.op = "get_table_schema"
    /\ call.table_name \in UnknownNames
    /\ call.raised = "ValueError: Unknown table"

\* the primary-key columns the metadata interface declares for a table
PrimaryKeys(table_name) ==
    {metadata[table_name].primary_keys[i] : i \in 1..Len(metadata[table_name].primary_keys)}

\* C8: within one read call no two emitted records of the table agree on all of
\* the table's primary-key columns, over all the files processed in the call.
C8_PrimaryKeysUnique ==
    (ReadReturned /\ call.table_name \in TableNames) =>
        \A i, j \in 1..Len(call.records) :
            i < j => \E k \in PrimaryKeys(call.table_name) :
                        call.records[i][k] # call.records[j][k]

\* the document of the one file of SpecExtract
TheRoot == fs[XmlA].content.root

\* whether some record of the call has these values
HasRow(a, va, b, vb) ==
    \E i \in 1..Len(call.records) : call.records[i][a] = va /\ call.records[i][b] = vb

\* C9: a foreign key of an emitted record is the identifier of an ancestor of the
\* node the record comes from; stated for the accounts of a document with one or
\* more policies: the record of an account that lies under a policy carries the
\* policy_id of that policy.
C9_AccountCarriesItsPolicy ==
    (ReadReturned /\ call.table_name = "accounts") =>
        LET policies == findall_deep(TheRoot, "policy")
        IN  \A i \in 1..Len(policies) :
              LET accounts == findall_deep(policies[i], "account")
              IN  \A j \in 1..Len(accounts) :
                    HasRow("account_id", Get(accounts[j], "id"),
                           "policy_id", Get(policies[i], "id"))

\* C10: a building placed directly under an account yields a row whose
\* location_id is null, and a building placed under a location of that account
\* yields a row whose location_id is that location's id.
C10_DirectBuildingHasNoLocation ==
    (ReadReturned /\ call.table_name = "buildings") =>
        LET accounts == findall_deep(TheRoot, "account")
        IN  \A a \in 1..Len(accounts) :
              LET direct == findall(accounts[a], "building")
                  locations == findall(accounts[a], "location")
              IN  /\ \A b \in 1..Len(direct) :
                       HasRow("building_id", Get(direct[b], "id"), "location_id", None)
                  /\ \A l \in 1..Len(locations) :
                       LET nested == findall(locations[l], "building")
                       IN  \A b \in 1..Len(nested) :
                             HasRow("building_id", Get(nested[b], "id"),
                                    "location_id", Get(locations[l], "id"))

(***************************************************************************)
(* Keys, fields and provenance of the records.                             *)
(***************************************************************************)
\* the columns that hold a record's primary key and its foreign keys
KeyColumns(table_name) ==
    PrimaryKeys(table_name) \cup {"policy_id", "line_id", "account_id", "location_id"}

Keys(table_name, record) ==
    [k \in KeyColumns(table_name) \cap DOMAIN record |-> record[k]]

\* the records of the call that come from the file p, in their order
RowsOf(p) == SelectSeq(call.records, LAMBDA r : r.source_file = Str(basename(p)))

\* the rule of the table run on the document of p alone, under another file
\* name and at another instant
Alone(table_name, p) ==
    ExtractTable(table_name, fs[p].content.root, Str("alone.xml"), Str("mtime"), Str("later"))

\* C11: the primary and foreign keys extracted for a document depend on the
\* document only: whichever other files the call processes, and wherever the
\* document comes in the processing order, its records carry the keys that the
\* rule yields on the document alone, synthesized identifiers included.
C11_KeysDependOnTheDocumentOnly ==
    (ReadReturned /\ call.table_name \in TableNames) =>
        \A i \in 1..Len(call.files_to_process) :
            LET p == call.files_to_process[i][1]
            IN  WellFormed(p) =>
                  /\ Len(RowsOf(p)) = Len(Alone(call.table_name, p))
                  /\ \A k \in 1..Len(RowsOf(p)) :
                        Keys(call.table_name, RowsOf(p)[k])
                          = Keys(call.table_name, Alone(call.table_name, p)[k])

\* two files with coverages that carry no id are processed in one call, and the
\* coverages of the second get the identifiers that those of the first got
C11_Witness ==
    /\ ReadReturned
    /\ call.table_name = "coverages"
    /\ Len(call.files_to_process) = 2
    /\ call.records # <<>>
    /\ call.records[1].source_file # call.records[Len(call.records)].source_file
    /\ call.records[1].coverage_id = Str("cov_P1_L1_1")
    /\ call.records[Len(call.records)].coverage_id
         = Str("cov_P1_L1_" \o ToString(MaxCoverages))
    /\ \E k \in 2..Len(call.records) :
         /\ call.records[k].coverage_id = Str("cov_P1_L1_1")
         /\ call.records[k].source_file # call.records[1].source_file

\* C12: under every line of every policy, the coverages that carry no id get
\* the identifiers cov_<policy_id>_<line_id>_1, cov_<policy_id>_<line_id>_2, ...
\* in document order: the ordinal counts the coverages without id of that line.
C12_CoverageOrdinalsPerLine ==
    (ReadReturned /\ call.table_name = "coverages") =>
        LET policies == findall_deep(TheRoot, "policy")
        IN  \A i \in 1..Len(policies) :
              LET lines == findall(policies[i], "line")
              IN  \A l \in 1..Len(lines) :
                    LET idless == SelectSeq(findall(lines[l], "coverage"),
                                            LAMBDA c : ~Truthy(Get(c, "id")))
                    IN  \A n \in 1..Len(idless) :
                          \E r \in 1..Len(call.records) :
                            /\ call.records[r].policy_id = Get(policies[i], "id")
                            /\ call.records[r].line_id = Get(lines[l], "id")
                            /\ call.records[r].coverage_id
                                 = Str("cov_" \o Format(Get(policies[i], "id")) \o "_"
                                         \o Format(Get(lines[l], "id")) \o "_" \o ToString(n))

\* the coverages of the document of the one file, with their policy and line
\* ids, in document order
Coverages == LineChildren(TheRoot, "coverage")

\* C12 (amended): the coverages that carry no id get the identifiers
\* cov_<policy_id>_<line_id>_<n>, where n counts the coverages without id of
\* the whole file in document order, across its lines and policies: 1, 2, ...
\* under the first line, and on from there under the next.
C12_CoverageOrdinalsPerFile ==
    (ReadReturned /\ call.table_name = "coverages") =>
        /\ Len(call.records) = Len(Coverages)
        /\ \A k \in 1..Len(Coverages) :
             LET n == Cardinality({j \in 1..k : Get(Coverages[j].node, "id") = None})
             IN  Get(Coverages[k].node, "id") = None =>
                   call.records[k].coverage_id
                     = Str("cov_" \o Format(Coverages[k].policy_id) \o "_"
                             \o Format(Coverages[k].line_id) \o "_" \o ToString(n))

\* a coverage without id under a second line, numbered after that of the first
C12_Witness ==
    /\ ReadReturned
    /\ call.table_name = "coverages"
    /\ \E r \in 1..Len(call.records) :
         /\ call.records[r].line_id = Str("L2")
         /\ call.records[r].coverage_id = Str("cov_P1_L2_2")
    /\ \E r \in 1..Len(call.records) : call.records[r].coverage_id = Str("cov_P1_L1_1")

\* the column names the schema interface declares for a table
Columns(table_name) ==
    {get_table_schema(table_name).value[i].name :
        i \in 1..Len(get_table_schema(table_name).value)}

\* C13: the field names of every record that a read of a table emits are
\* exactly the column names the schema interface declares for the table, none
\* more and none less, source_file and _extracted_at among them.
C13_FieldsAreTheSchemaColumns ==
    (ReadReturned /\ call.table_name \in TableNames) =>
        /\ {"source_file", "_extracted_at"} \subseteq Columns(call.table_name)
        /\ \A r \in 1..Len(call.records) :
             DOMAIN call.records[r] = Columns(call.table_name)

\* a read that emits the records of locations, with their six columns
C13_Witness ==
    /\ ReadReturned
    /\ call.table_name = "locations"
    /\ Len(call.records) >= 2
    /\ Cardinality(DOMAIN call.records[1]) = 6

\* the base name of every record's file of origin: for each processed file in
\* its turn, as many names as the rule yields records on its document
Origins ==
    FlatMap(LAMBDA file :
              Map(LAMBDA row : Str(file[1].stem \o "." \o file[1].ext),
                  IF WellFormed(file[1]) THEN Alone(call.table_name, file[1]) ELSE <<>>),
            call.files_to_process)

\* C14: all the records of one read call, from whichever file, carry the same
\* extraction timestamp, the instant the call read the clock; and every record's
\* source_file is the base name of the file it was extracted from.
C14_OneTimestampAndOwnFileName ==
    (ReadReturned /\ call.table_name \in TableNames) =>
        /\ \A r \in 1..Len(call.records) :
             call.records[r]._extracted_at = Str(Join(IsoOf(call.utcnow)))
        /\ Len(call.records) = Len(Origins)
        /\ \A r \in 1..Len(call.records) : call.records[r].source_file = Origins[r]

\* records of two files in one call
C14_Witness ==
    /\ ReadReturned
    /\ call.table_name \in TableNames
    /\ \E r, s \in 1..Len(call.records) :
         /\ call.records[r].source_file = Str("a.xml")
         /\ call.records[s].source_file = Str("b.xml")
         /\ call.records[r]._extracted_at = call.records[s]._extracted_at

\* the text of the child element tag of elem, stripped, or None without child
ChildText(elem, tag) ==
    IF find(elem, tag) = None \/ find(elem, tag).text = <<>> THEN None
    ELSE Str(Join(Strip(find(elem, tag).text)))

\* a child element tag of elem that has text, which is not a number
NotNumeric(elem, tag) ==
    /\ find(elem, tag) # None
    /\ Strip(find(elem, tag).text) # <<>>
    /\ ~IsFloatLiteral(Strip(find(elem, tag).text))

\* the limits of the document of the one file, in document order
Limits == LineChildren(TheRoot, "limit")

\* C15: a numeric child element whose text is no floating-point number, such as
\* the Amount of a limit or the Premium of a policy, gives a null field; the row
\* is emitted all the same, with its keys, its other fields and its provenance,
\* and the call raises nothing.
C15_UnparsableNumberIsNull ==
    /\ (ReadReturned /\ call.table_name = "limits") =>
         /\ call.raised = ""
         /\ Len(call.records) = Len(Limits)
         /\ \A k \in 1..Len(Limits) :
              NotNumeric(Limits[k].node, "Amount") =>
                /\ call.records[k].amount = None
                /\ call.records[k].limit_id # None
                /\ call.records[k].line_id = Limits[k].line_id
                /\ call.records[k].policy_id = Limits[k].policy_id
                /\ call.records[k].type = ChildText(Limits[k].node, "Type")
                /\ call.records[k].scope = ChildText(Limits[k].node, "Scope")
                /\ call.records[k].source_file = Str("a.xml")
                /\ call.records[k]._extracted_at = Str(Join(IsoOf(call.utcnow)))
    /\ (ReadReturned /\ call.table_name = "policies") =>
         LET policies == findall_deep(TheRoot, "policy")
         IN  /\ call.raised = ""
             /\ Len(call.records) = Len(policies)
             /\ \A k \in 1..Len(policies) :
                  NotNumeric(policies[k], "Premium") =>
                    /\ call.records[k].premium = None
                    /\ call.records[k].policy_id = Get(policies[k], "id")
                    /\ call.records[k].status = ChildText(policies[k], "Status")

\* a limit whose Amount is the text n/a, and its row
C15_Witness ==
    /\ ReadReturned
    /\ call.table_name = "limits"
    /\ Limits # <<>>
    /\ ChildText(Limits[1].node, "Amount") = Str("n/a")
    /\ call.records[1].amount = None
    /\ call.records[1].type = Str("Occurrence")

\* the primary keys of the tables as the design document lists them
ListedKeys ==
    [policies |-> {"policy_id"},
     lines |-> {"line_id", "policy_id"},
     coverages |-> {"coverage_id", "line_id", "policy_id"},
     exposures |-> {"exposure_id", "line_id", "policy_id"},
     limits |-> {"limit_id", "line_id", "policy_id"},
     deductibles |-> {"deductible_id", "line_id", "policy_id"},
     locations |-> {"location_id", "policy_id"},
     buildings |-> {"building_id", "location_id", "policy_id"},
     occupancies |-> {"occupancy_id", "location_id", "policy_id"},
     accounts |-> {"account_id", "policy_id"},
     addresses |-> {"address_id", "policy_id"},
     underwriter_referrals |-> {"referral_id", "policy_id"},
     tax_surcharges |-> {"tax_surcharge_id", "policy_id"}]

MetadataReturned ==
    pc = "returned" /\ call.op = "read_table_metadata" /\ call.raised = ""

\* C16: for each of the 13 tables the metadata interface returns the listed
\* primary-key columns, the ingestion mode cdc, and as cursor the column
\* _extracted_at, or file_modified_time for policies; the key columns and the
\* cursor are columns the schema interface declares for the table.
C16_MetadataOfEveryTable ==
    /\ DOMAIN ListedKeys = TableNames
    /\ MetadataReturned =>
         LET keys == {call.value.primary_keys[i] : i \in 1..Len(call.value.primary_keys)}
         IN  /\ keys = ListedKeys[call.table_name]
             /\ Len(call.value.primary_keys) = Cardinality(keys)
             /\ call.value.ingestion_type = "cdc"
             /\ call.value.cursor_field =
                  (IF call.table_name = "policies" THEN "file_modified_time"
                                                   ELSE "_extracted_at")
             /\ keys \subseteq Columns(call.table_name)
             /\ call.value.cursor_field \in Columns(call.table_name)

\* the metadata of the root table, whose cursor is the file's modification time
C16_Witness ==
    /\ MetadataReturned
    /\ call.table_name = "policies"
    /\ call.value.cursor_field = "file_modified_time"

ConstructorReturned == pc = "returned" /\ call.op = "__init__"

\* the options name no location: file_path is absent, null or empty
NoLocation(options) ==
    "file_path" \notin DOMAIN options \/ options.file_path \in {None, Str("")}

\* C17: constructing the connector without a location (file_path missing or
\* empty) fails at once with the configuration error and leaves no connector;
\* constructing it with a non-empty file_path succeeds, and the connector holds
\* that path and the pattern given, or *.xml.
C17_ConstructionNeedsALocation ==
    /\ ConstructorReturned /\ NoLocation(call.options) =>
         /\ call.raised = "ValueError: file_path option is required"
         /\ self = NoConnector
    /\ ConstructorReturned /\ ~NoLocation(call.options) =>
         /\ call.raised = ""
         /\ self # NoConnector
         /\ self.file_path = call.options.file_path.s
         /\ self.file_pattern = (IF "file_pattern" \in DOMAIN call.options
                                 THEN call.options.file_pattern.s ELSE "*.xml")
    /\ ReadReturned => self # NoConnector

\* a constructor called with a pattern and no path, which raised
C17_Witness ==
    /\ ConstructorReturned
    /\ DOMAIN call.options = {"file_pattern"}
    /\ call.raised # ""
    /\ self = NoConnector

\* what the call of thread t returns when it runs alone: read_table as a whole,
\* given the listing and the instant the thread's call got
RunAlone(t) ==
    read_table(call[t].table_name, call[t].start_offset, fs,
               call[t].xml_files, call[t].utcnow).value

C18_Result ==
    \A t \in Threads :
        pc[t] = "returned" =>
            /\ call[t].start_offset = offset
            /\ call[t].records = RunAlone(t).records
            /\ call[t].new_offset = RunAlone(t).new_offset

\* C18: a read call changes nothing of the connector and writes nothing; and
\* however the calls of two threads for their tables interleave, with the same
\* incoming watermark over an unchanged set of files, each returns the records
\* and the outgoing watermark it returns when it runs alone.
C18_ParallelReadsDoNotInterfere ==
    /\ [](C18_Result)
    /\ [][self' = self /\ fs' = fs /\ offset' = offset]_vars

\* both threads have returned records, for different tables, the second having
\* begun before the first was done
C18_Witness ==
    /\ pc[1] = "returned"
    /\ pc[2] = "returned"
    /\ call[1].table_name # call[2].table_name
    /\ call[1].records # <<>>
    /\ call[2].records # <<>>
    /\ call[1].xml_files # call[2].xml_files

\* the floating-point value of an attribute of elem, or None when the attribute
\* is absent or no number
AttributeFloat(elem, name) ==
    IF name \in DOMAIN elem.attrs /\ IsFloatLiteral(Strip(Chars(elem.attrs[name])))
    THEN FloatOf(Strip(Chars(elem.attrs[name])))
    ELSE None

\* the lines of the document of the one file, in document order
Lines ==
    FlatMap(LAMBDA data :
              FlatMap(LAMBDA policy : findall(policy, "line"), findall(data, "policy")),
            findall_deep(TheRoot, "data"))

\* C19: the written and change fields of a row of lines, coverages and tax
\* surcharges are the floating-point values of the node's written and change
\* attributes, or null when the attribute is absent or not a number; they are
\* never strings.
C19_WrittenAndChangeAreFloats ==
    /\ (ReadReturned /\ call.table_name \in {"lines", "coverages", "tax_surcharges"}) =>
         \A r \in 1..Len(call.records) :
            /\ call.records[r].written.py \in {"float", "None"}
            /\ call.records[r].change.py \in {"float", "None"}
    /\ (ReadReturned /\ call.table_name = "lines") =>
         /\ Len(call.records) = Len(Lines)
         /\ \A k \in 1..Len(Lines) :
              /\ call.records[k].written = AttributeFloat(Lines[k], "written")
              /\ call.records[k].change = AttributeFloat(Lines[k], "change")

RECURSIVE NodesUnderData(_, _, _)
\* the nodes with this tag below elem that lie under a data element, each once,
\* in document order; under: elem is a data element or lies under one
NodesUnderData(elem, tag, under) ==
    FlatMap(LAMBDA k : (IF k.tag = tag /\ under THEN <<k>> ELSE <<>>)
                         \o NodesUnderData(k, tag, under \/ k.tag = "data"),
            elem.kids)

\* how many records of the call carry this value in this column
Count(column, value) ==
    Cardinality({r \in 1..Len(call.records) : call.records[r][column] = value})

\* C20: a rule emits one record for each node of its type that it can reach, no
\* node left out and none emitted twice, however deep the data element lies and
\* however the elements above the policies are nested or repeated; stated for
\* the accounts and the policies, whose ids differ from node to node.
C20_OneRecordPerNode ==
    /\ (ReadReturned /\ call.table_name = "accounts") =>
         LET accounts == NodesUnderData(TheRoot, "account", FALSE)
         IN  /\ Len(call.records) = Len(accounts)
             /\ \A a \in 1..Len(accounts) : Count("account_id", Get(accounts[a], "id")) = 1
    /\ (ReadReturned /\ call.table_name = "policies") =>
         LET policies == NodesUnderData(TheRoot, "policy", FALSE)
         IN  /\ Len(call.records) = Len(policies)
             /\ \A a \in 1..Len(policies) : Count("policy_id", Get(policies[a], "id")) = 1

\* C21: a selected file that does not parse counts toward the outgoing
\* watermark like one that does; so in a chain of reads that feeds each outgoing
\* watermark into the next call, a file that a call of the chain has processed,
\* skipped as malformed or not, lies at or below the watermark the caller holds
\* and is selected by no later call of the chain while its modification time
\* stays what it was.
C21_SkippedFileIsNotSelectedAgain ==
    /\ ChainRead =>
         \A p \in Selected :
            /\ ~StrLt(Outgoing, IsoOf(fs[p].mtime))
            /\ processed[p] = 0
    /\ \A p \in Paths :
         processed[p] >= 1 =>
            /\ fs[p].exists
            /\ ~StrGt(IsoOf(fs[p].mtime), WatermarkOf(offset))

\* a call of the chain has skipped a.xml as malformed and the caller has kept
\* its watermark; a later call, the file unchanged, selects the newer b.xml and
\* not a.xml
C21_Witness ==
    /\ ChainRead
    /\ fs[XmlA].exists /\ ~fs[XmlA].content.wellformed
    /\ processed[XmlA] = 1
    /\ Incoming = IsoOf(fs[XmlA].mtime)
    /\ Selected = {XmlB}

\* C22: every record of a read of policies carries, as file_modified_time, the
\* modification time of its source file, a file the call selected; that time
\* is at or below the outgoing watermark of the call and, when the incoming
\* watermark is not empty, strictly above the incoming watermark.
C22_CursorOfPolicies ==
    (ReadReturned /\ call.table_name = "policies") =>
        \A r \in 1..Len(call.records) :
            \E p \in Selected :
                /\ call.records[r].source_file = Str(p.stem \o "." \o p.ext)
                /\ call.records[r].file_modified_time = Str(Join(IsoOf(fs[p].mtime)))
                /\ ~StrLt(Outgoing, IsoOf(fs[p].mtime))
                /\ Incoming # <<>> => StrGt(IsoOf(fs[p].mtime), Incoming)

\* a read of policies with the watermark at the time of a.xml, whose records
\* come from the later b.xml and carry its time, which has a fraction of a second
C22_Witness ==
    /\ ReadReturned
    /\ call.table_name = "policies"
    /\ Incoming = IsoOf(fs[XmlA].mtime)
    /\ call.records # <<>>
    /\ \A r \in 1..Len(call.records) :
         /\ call.records[r].source_file = Str("b.xml")
         /\ call.records[r].file_modified_time = Str("2024-01-01T00:00:09.500000")
    /\ Outgoing = IsoOf(fs[XmlB].mtime)

\* the columns that the schema of the table declares non-nullable
Required(table_name) ==
    {schemas[table_name][i].name :
        i \in {j \in 1..Len(schemas[table_name]) : ~schemas[table_name][j].nullable}}

\* C23: every record of a read of a table has a value other than None in every
\* column that the schema of the table declares non-nullable, for every
\* document that parses.
C23_RequiredColumnsAreNotNull ==
    (ReadReturned /\ call.table_name \in TableNames) =>
        \A r \in 1..Len(call.records) :
            \A c \in Required(call.table_name) :
                call.records[r][c] # None

====
